---------------------------- MODULE Spec2Model ----------------------------
(***************************************************************************)
(* Model of app.py: the date normaliser format_date, the aggregation       *)
(* pipeline process_file, and the Streamlit script that previews an        *)
(* uploaded file and runs process_file when "Process File" is clicked.     *)
(*                                                                         *)
(* Text is a tuple of one-character strings, so that the regular           *)
(* expression, the CSV writer and the CSV reader work on characters.       *)
(* A cell of a table is a tagged value: missing (NaN), None, text, int or  *)
(* float; a float is the rational n/d in lowest terms.                     *)
(***************************************************************************)
EXTENDS Integers, Sequences, FiniteSets, TLC

(***************************************************************************)
(* Bounds of the model.                                                    *)
(***************************************************************************)
\* rows of a table handed to process_file directly
MaxRows == 2
\* rows of a file uploaded through the form
MaxUiRows == 1

(***************************************************************************)
(* Characters and text.                                                    *)
(***************************************************************************)
Digits == <<"0", "1", "2", "3", "4", "5", "6", "7", "8", "9">>

\* the characters the model uses, in code-point order
Alphabet == <<" ", "'", "(", ")", "-", ".", "/",
              "0", "1", "2", "3", "4", "5", "6", "7", "8", "9",
              "A", "F", "M", "_", "a", "c", "d", "l", "o", "s", "t", "v", "x", "y", "~">>

Rank(c) == CHOOSE i \in 1..Len(Alphabet) : Alphabet[i] = c

IsDigit(c) == \E i \in 1..10 : Digits[i] = c

DigitVal(c) == (CHOOSE i \in 1..10 : Digits[i] = c) - 1

\* \w of the re module: letters, digits and the underscore
IsWordChar(c) == c \notin {" ", "'", "(", ")", "-", ".", "/", "~"}

AllDigits(s) == Len(s) > 0 /\ \A i \in 1..Len(s) : IsDigit(s[i])

RECURSIVE ParseInt(_)
\* int("...") on a run of digits
ParseInt(s) ==
    IF s = <<>> THEN 0
    ELSE 10 * ParseInt(SubSeq(s, 1, Len(s) - 1)) + DigitVal(s[Len(s)])

RECURSIVE IntText(_)
\* str(n) for n >= 0
IntText(n) ==
    IF n < 10 THEN <<Digits[n + 1]>>
    ELSE IntText(n \div 10) \o <<Digits[(n % 10) + 1]>>

RECURSIVE ZeroPad(_, _)
\* the zero padding of %d, %m and %Y
ZeroPad(s, w) == IF Len(s) >= w THEN s ELSE ZeroPad(<<"0">> \o s, w)

RECURSIVE TextLess(_, _)
\* s < t for Python strings: lexicographic by code point
TextLess(s, t) ==
    IF t = <<>> THEN FALSE
    ELSE IF s = <<>> THEN TRUE
    ELSE IF s[1] # t[1] THEN Rank(s[1]) < Rank(t[1])
    ELSE TextLess(Tail(s), Tail(t))

EndsWith(s, suf) ==
    /\ Len(s) >= Len(suf)
    /\ SubSeq(s, Len(s) - Len(suf) + 1, Len(s)) = suf

IndexOf(s, c) ==
    IF \E i \in 1..Len(s) : s[i] = c
    THEN CHOOSE i \in 1..Len(s) : s[i] = c /\ \A j \in 1..(i - 1) : s[j] # c
    ELSE 0

RECURSIVE GCD(_, _)
GCD(a, b) == IF b = 0 THEN a ELSE GCD(b, a % b)

(***************************************************************************)
(* Cell values.                                                            *)
(***************************************************************************)
NaN == [t |-> "nan", s |-> <<>>, n |-> 0, d |-> 1]
None == [t |-> "none", s |-> <<>>, n |-> 0, d |-> 1]
StrV(s) == [t |-> "str", s |-> s, n |-> 0, d |-> 1]
IntV(n) == [t |-> "int", s |-> <<>>, n |-> n, d |-> 1]
\* the double nearest n/d
FloatV(n, d) ==
    LET g == GCD(n, d)
    IN  [t |-> "float", s |-> <<>>, n |-> n \div g, d |-> d \div g]
\* a double next to the one nearest n/d
FloatOff(n, d) == [FloatV(n, d) EXCEPT !.s = <<"~">>]

\* pd.isna on a scalar
isna(v) == v.t \in {"nan", "none"}

IsNumber(v) == v.t \in {"int", "float"}

(***************************************************************************)
(* CSV text and tables.  A CSV text is a header of column names and rows   *)
(* of fields; a table (DataFrame) is a list of column names and rows that  *)
(* map each column name to a value.                                        *)
(***************************************************************************)
Range(f) == {f[i] : i \in DOMAIN f}

ColIndex(cols, c) == CHOOSE j \in 1..Len(cols) : cols[j] = c

RECURSIVE StripTwoFive(_)
StripTwoFive(d) ==
    IF d % 2 = 0 THEN StripTwoFive(d \div 2)
    ELSE IF d % 5 = 0 THEN StripTwoFive(d \div 5)
    ELSE d

\* n/d has a finite decimal expansion
Terminates(d) == StripTwoFive(d) = 1

RECURSIVE FracDigits(_, _, _)
\* the first k digits after the point of r/d (r < d), stopping when exact
FracDigits(r, d, k) ==
    IF r = 0 \/ k = 0 THEN <<>>
    ELSE <<Digits[((10 * r) \div d) + 1]>> \o FracDigits((10 * r) % d, d, k - 1)

\* repr(float), as to_csv writes a float: the shortest digits that read back
\* to the same double.  A value without a finite expansion is written as its
\* leading digits, "~" for the remaining digits, and the name n/d of the
\* double those digits pin down.
FloatText(v) ==
    LET ip == IntText(v.n \div v.d)
        fr == FracDigits(v.n % v.d, v.d, 3)
    IN  IF Terminates(v.d) /\ v.s = <<>>
        THEN ip \o <<".">> \o (IF fr = <<>> THEN <<"0">> ELSE fr)
        ELSE ip \o <<".">> \o fr \o <<"~">> \o IntText(v.n) \o <<"/">> \o IntText(v.d)

\* the field to_csv writes for a value (na_rep is the empty string)
FieldText(v) ==
    CASE v.t = "str" -> v.s
      [] v.t = "int" -> IntText(v.n)
      [] v.t = "float" -> FloatText(v)
      [] OTHER -> <<>>

IsIntText(s) == AllDigits(s)

IsFloatText(s) ==
    LET p == IndexOf(s, ".")
        m == IndexOf(s, "~")
        q == IndexOf(s, "/")
    IN  /\ p > 1
        /\ AllDigits(SubSeq(s, 1, p - 1))
        /\ IF m = 0
           THEN AllDigits(SubSeq(s, p + 1, Len(s)))
           ELSE /\ m > p
                /\ \A i \in (p + 1)..(m - 1) : IsDigit(s[i])
                /\ q > m + 1
                /\ AllDigits(SubSeq(s, m + 1, q - 1))
                /\ AllDigits(SubSeq(s, q + 1, Len(s)))

RECURSIVE Pow10(_)
Pow10(k) == IF k = 0 THEN 1 ELSE 10 * Pow10(k - 1)

\* the float parser of read_csv; prec says whether the default converter
\* returns the nearest double for digits that need all 17 places
ParseFloat(s, prec) ==
    LET p == IndexOf(s, ".")
        m == IndexOf(s, "~")
        q == IndexOf(s, "/")
    IN  IF p = 0 THEN FloatV(ParseInt(s), 1)
        ELSE IF m = 0
        THEN FloatV(ParseInt(SubSeq(s, 1, p - 1) \o SubSeq(s, p + 1, Len(s))),
                    Pow10(Len(s) - p))
        ELSE IF prec = "nearest"
        THEN FloatV(ParseInt(SubSeq(s, m + 1, q - 1)), ParseInt(SubSeq(s, q + 1, Len(s))))
        ELSE FloatOff(ParseInt(SubSeq(s, m + 1, q - 1)), ParseInt(SubSeq(s, q + 1, Len(s))))

\* the dtype inference of the reader on one column of fields: int64 when
\* every field is an integer, float64 when every non-empty field is a
\* number, object (text, with NaN for the empty fields) otherwise
InferCol(fields, prec) ==
    LET present == {i \in DOMAIN fields : fields[i] # <<>>}
    IN  IF present = DOMAIN fields /\ \A i \in present : IsIntText(fields[i])
        THEN [i \in DOMAIN fields |-> IntV(ParseInt(fields[i]))]
        ELSE IF \A i \in present : IsIntText(fields[i]) \/ IsFloatText(fields[i])
        THEN [i \in DOMAIN fields |->
                 IF fields[i] = <<>> THEN NaN ELSE ParseFloat(fields[i], prec)]
        ELSE [i \in DOMAIN fields |->
                 IF fields[i] = <<>> THEN NaN ELSE StrV(fields[i])]

\* pd.read_csv on a CSV text
ParseCsv(csv, prec) ==
    LET col(j) == InferCol([i \in 1..Len(csv.rows) |-> csv.rows[i][j]], prec)
    IN  [columns |-> csv.header,
         rows |-> [i \in 1..Len(csv.rows) |->
                     [c \in Range(csv.header) |-> col(ColIndex(csv.header, c))[i]]]]

\* DataFrame.to_csv() with the index column left in
to_csv_index(df) ==
    [header |-> <<"">> \o df.columns,
     rows |-> [i \in 1..Len(df.rows) |->
                 <<IntText(i - 1)>> \o
                 [j \in 1..Len(df.columns) |-> FieldText(df.rows[i][df.columns[j]])]]]

\* DataFrame.to_csv(index=False)
to_csv(df) ==
    [header |-> df.columns,
     rows |-> [i \in 1..Len(df.rows) |->
                 [j \in 1..Len(df.columns) |-> FieldText(df.rows[i][df.columns[j]])]]]

(***************************************************************************)
(* What the script shows the user: st.error, st.success, st.write,         *)
(* st.download_button.                                                     *)
(***************************************************************************)
Msg(kind, text, arg) == [kind |-> kind, text |-> text, arg |-> arg]

(***************************************************************************)
(* format_date                                                             *)
(***************************************************************************)
RECURSIVE WordRunEnd(_, _)
\* the last position of the run of \w characters that starts at i, or i - 1
WordRunEnd(s, i) ==
    IF i <= Len(s) /\ IsWordChar(s[i]) THEN WordRunEnd(s, i + 1) ELSE i - 1

\* re.match(r'(\d{4}) (\d{2}) \(\w+ \'\d{2}\)', s): a match at the start of s
RegexMatch(s) ==
    LET k == WordRunEnd(s, 10)
    IN  /\ Len(s) >= 15
        /\ \A i \in 1..4 : IsDigit(s[i])
        /\ s[5] = " "
        /\ IsDigit(s[6]) /\ IsDigit(s[7])
        /\ s[8] = " "
        /\ s[9] = "("
        /\ k >= 10
        /\ Len(s) >= k + 5
        /\ s[k + 1] = " "
        /\ s[k + 2] = "'"
        /\ IsDigit(s[k + 3]) /\ IsDigit(s[k + 4])
        /\ s[k + 5] = ")"

\* match.groups()
MatchGroups(s) == [year |-> SubSeq(s, 1, 4), month |-> SubSeq(s, 6, 7)]

\* the resolutions a pandas build gives a parsed timestamp: nanoseconds
\* (1677-09-21 .. 2262-04-11) or microseconds (the whole calendar)
Units == {"ns", "us"}

\* pd.to_datetime(f"{year}-{month}-01", format='%Y-%m-%d') returns a
\* timestamp; otherwise it raises
ToDatetimeOk(y, m, unit) ==
    /\ m \in 1..12
    /\ y >= 1
    /\ unit = "ns" => /\ (y > 1677 \/ (y = 1677 /\ m >= 10))
                      /\ (y < 2262 \/ (y = 2262 /\ m <= 4))

\* strftime('%m-%d-%Y'): month and day exchanged
Strftime_mdY(y, m, d) ==
    ZeroPad(IntText(m), 2) \o <<"-">> \o ZeroPad(IntText(d), 2) \o <<"-">>
        \o ZeroPad(IntText(y), 4)

\* strftime('%d-%m-%Y')
Strftime(y, m, d) ==
    ZeroPad(IntText(d), 2) \o <<"-">> \o ZeroPad(IntText(m), 2) \o <<"-">>
        \o ZeroPad(IntText(y), 4)

\* what the fuzzy parser may answer for a string the model does not know:
\* an error or some date
FuzzyOutcomes == {<<0, 0, 0>>, <<2024, 5, 3>>, <<2026, 11, 4>>}

\* dateutil's parser.parse(s, fuzzy=True): the date <<y, m, d>>, or
\* <<0, 0, 0>> when it raises ParserError
DateutilParse(s, fuzzy) ==
    IF s = <<"2", "0", "2", "4", "-", "0", "5", "-", "0", "3">> THEN <<2024, 5, 3>>
    ELSE IF s = <<"x", "x">> THEN <<0, 0, 0>>
    ELSE fuzzy

ParseError(v) == Msg("error", "Error parsing date", v)

\* the try block of format_date (lines 11-24)
TryParse(v, env) ==
    IF v.t # "str"
    THEN \* re.match raises TypeError on a value that is not a string
         [ret |-> None, out |-> <<ParseError(v)>>]
    ELSE IF RegexMatch(v.s)
    THEN LET g == MatchGroups(v.s)
             y == ParseInt(g.year)
             m == ParseInt(g.month)
         IN  IF ToDatetimeOk(y, m, env.unit)
             THEN [ret |-> StrV(Strftime(y, m, 1)), out |-> <<>>]
             ELSE [ret |-> None, out |-> <<ParseError(v)>>]
    ELSE LET dt == DateutilParse(v.s, env.fuzzy)
         IN  IF dt = <<0, 0, 0>>
             THEN [ret |-> None, out |-> <<ParseError(v)>>]
             ELSE [ret |-> StrV(Strftime(dt[1], dt[2], dt[3])), out |-> <<>>]

\* format_date without the null check returning None: a null date becomes
\* the epoch
format_date_epoch(v, env) ==
    IF isna(v) THEN [ret |-> StrV(Strftime(1970, 1, 1)), out |-> <<>>] ELSE TryParse(v, env)

\* format_date(date_str): the returned value and the messages shown
format_date(v, env) ==
    IF isna(v) THEN [ret |-> None, out |-> <<>>] ELSE TryParse(v, env)

(***************************************************************************)
(* The table operations process_file uses.                                 *)
(***************************************************************************)
FM == "Formatted Month"

\* a list argument, or Python's None in its place
ListArg(cols) == [isNone |-> FALSE, v |-> cols]
NoneArg == [isNone |-> TRUE, v |-> <<>>]

\* DataFrame.dropna(how='all')
DropAllNa(df) ==
    LET Keep(r) == \E c \in Range(df.columns) : ~isna(r[c])
    IN  [df EXCEPT !.rows = SelectSeq(df.rows, Keep)]

\* DataFrame.dropna(subset=[c])
DropNa(df, c) ==
    LET Keep(r) == ~isna(r[c])
    IN  [df EXCEPT !.rows = SelectSeq(df.rows, Keep)]

\* df[c] = vals: replace the column, or append it when it is new
SetColumn(df, c, vals) ==
    [columns |-> IF c \in Range(df.columns) THEN df.columns ELSE Append(df.columns, c),
     rows |-> [i \in 1..Len(df.rows) |->
                 [k \in Range(df.columns) \cup {c} |->
                     IF k = c THEN vals[i] ELSE df.rows[i][k]]]]

\* pd.to_numeric(errors='coerce') on one value
Coerce(v) ==
    CASE v.t = "int" -> v
      [] v.t = "float" -> v
      [] v.t = "str" ->
            IF IsIntText(v.s) THEN IntV(ParseInt(v.s))
            ELSE IF IsFloatText(v.s) THEN ParseFloat(v.s, "nearest")
            ELSE NaN
      [] OTHER -> NaN

\* pd.to_numeric(errors='coerce') on a column: int64 when every value is an
\* integer, float64 otherwise
ToNumericCol(vals) ==
    LET c == [i \in DOMAIN vals |-> Coerce(vals[i])]
    IN  IF \A i \in DOMAIN c : c[i].t = "int" THEN c
        ELSE [i \in DOMAIN c |-> IF c[i].t = "int" THEN FloatV(c[i].n, 1) ELSE c[i]]

RECURSIVE ToNumeric(_, _)
\* data[sum_cols] = data[sum_cols].apply(pd.to_numeric, errors='coerce')
ToNumeric(df, cols) ==
    IF cols = <<>> THEN df
    ELSE ToNumeric(SetColumn(df, cols[1],
                     ToNumericCol([i \in 1..Len(df.rows) |-> df.rows[i][cols[1]]])),
                   Tail(cols))

\* order of two values of one column
ValLess(a, b) ==
    IF a.t = "str" /\ b.t = "str" THEN TextLess(a.s, b.s)
    ELSE IF IsNumber(a) /\ IsNumber(b) THEN a.n * b.d < b.n * a.d
    ELSE IsNumber(a) /\ b.t = "str"

RECURSIVE KeyLess(_, _)
\* order of two group keys: by the first column in which they differ
KeyLess(a, b) ==
    IF a = <<>> THEN FALSE
    ELSE IF a[1] # b[1] THEN ValLess(a[1], b[1])
    ELSE KeyLess(Tail(a), Tail(b))

RECURSIVE SortKeys(_)
SortKeys(S) ==
    IF S = {} THEN <<>>
    ELSE LET m == CHOOSE x \in S : \A y \in S \ {x} : KeyLess(x, y)
         IN  <<m>> \o SortKeys(S \ {m})

RECURSIVE SortNums(_)
\* the numbers of a sequence in ascending order
SortNums(q) ==
    IF q = <<>> THEN <<>>
    ELSE LET i == CHOOSE i \in 1..Len(q) : \A j \in 1..Len(q) : ~ValLess(q[j], q[i])
         IN  <<q[i]>> \o SortNums(SubSeq(q, 1, i - 1) \o SubSeq(q, i + 1, Len(q)))

RECURSIVE SumNums(_)
\* the sum of a sequence of numbers, as the pair <<n, d>>
SumNums(q) ==
    IF q = <<>> THEN <<0, 1>>
    ELSE LET r == SumNums(Tail(q))
         IN  <<q[1].n * r[2] + r[1] * q[1].d, q[1].d * r[2]>>

NotNa(v) == ~isna(v)

\* GroupBy.sum(): missing values are skipped; an int64 column sums to an int
GroupSum(vals) ==
    LET t == SumNums(SelectSeq(vals, NotNa))
    IN  IF vals[1].t = "int" THEN IntV(t[1] \div t[2]) ELSE FloatV(t[1], t[2])

\* a mean that divides by the number of rows, missing values included
GroupMean_allRows(vals) ==
    LET nn == SelectSeq(vals, NotNa)
        t == SumNums(nn)
    IN  IF nn = <<>> THEN NaN ELSE FloatV(t[1], t[2] * Len(vals))

\* GroupBy.mean(): missing values are skipped; NaN when nothing is left
GroupMean(vals) ==
    LET nn == SelectSeq(vals, NotNa)
        t == SumNums(nn)
    IN  IF nn = <<>> THEN NaN ELSE FloatV(t[1], t[2] * Len(nn))

\* GroupBy.median(): missing values are skipped; NaN when nothing is left
GroupMedian(vals) ==
    LET nn == SortNums(SelectSeq(vals, NotNa))
        k == Len(nn)
        lo == nn[k \div 2]
        hi == nn[(k \div 2) + 1]
    IN  IF k = 0 THEN NaN
        ELSE IF k % 2 = 1 THEN FloatV(hi.n, hi.d)
        ELSE FloatV(lo.n * hi.d + hi.n * lo.d, 2 * lo.d * hi.d)

Reduce(agg_func, vals) ==
    CASE agg_func = "sum" -> GroupSum(vals)
      [] agg_func = "mean" -> GroupMean(vals)
      [] agg_func = "median" -> GroupMedian(vals)

KeyOf(r, keys) == [j \in 1..Len(keys) |-> r[keys[j]]]

\* data.groupby(keys)[sum_cols].<agg_func>().reset_index(): rows with a
\* missing key value are left out (dropna=True), one row per key, keys sorted
GroupAgg(df, keys, sum_cols, agg_func) ==
    LET HasKey(r) == \A j \in 1..Len(keys) : ~isna(r[keys[j]])
        kept == SelectSeq(df.rows, HasKey)
        order == SortKeys({KeyOf(kept[i], keys) : i \in 1..Len(kept)})
        cols == keys \o sum_cols
        Members(k) == LET InK(r) == KeyOf(r, keys) = k IN SelectSeq(kept, InK)
        Column(k, c) == LET m == Members(k) IN [i \in 1..Len(m) |-> m[i][c]]
    IN  [columns |-> cols,
         rows |-> [g \in 1..Len(order) |->
                     [c \in Range(cols) |->
                         IF c \in Range(keys) THEN order[g][ColIndex(keys, c)]
                         ELSE Reduce(agg_func, Column(order[g], c))]]]

(***************************************************************************)
(* Files and process_file                                                  *)
(***************************************************************************)
EmptyDf == [columns |-> <<>>, rows |-> <<>>]
EmptyCsv == [header |-> <<>>, rows |-> <<>>]

\* Cleaned_Aggregated_Data.csv before any run has written it
NoDisk == [exists |-> FALSE, csv |-> EmptyCsv]

\* sheet_name=None
NoneSheet == "<None>"
\* the sheets of an uploaded workbook
SheetNames == <<"Sheet1">>

DotXlsx == <<".", "x", "l", "s", "x">>
DotCsv == <<".", "c", "s", "v">>

\* a file object: its name, its contents, and the read position
FileObj(name, content) == [name |-> name, content |-> content, pos |-> "start"]

\* pd.read_csv(file): reads from the current position to the end, and raises
\* EmptyDataError when nothing is left to read
read_csv(file) ==
    IF file.pos = "end"
    THEN [exc |-> "EmptyDataError", df |-> EmptyDf, pos |-> "end"]
    ELSE [exc |-> "", df |-> ParseCsv(file.content, "nearest"), pos |-> "end"]

\* pd.read_excel(file, sheet_name=...): the reader rewinds the handle first;
\* sheet_name=None gives a dict of tables, whose use as a table raises.
\* The cells of a workbook are typed the way the CSV reader types them.
read_excel(file, sheet_name) ==
    IF sheet_name = NoneSheet
    THEN [exc |-> "AttributeError", df |-> EmptyDf, pos |-> "end"]
    ELSE IF sheet_name \notin Range(SheetNames)
    THEN [exc |-> "ValueError", df |-> EmptyDf, pos |-> "end"]
    ELSE [exc |-> "", df |-> ParseCsv(file.content, "nearest"), pos |-> "end"]

\* a table read from a file, or no table
Loaded(df) == [ok |-> TRUE, df |-> df]
NotLoaded == [ok |-> FALSE, df |-> EmptyDf]

RECURSIVE Concat(_)
Concat(qq) == IF qq = <<>> THEN <<>> ELSE qq[1] \o Concat(Tail(qq))

\* the outcome of a call: what it returned ("none", "table") or that it
\* raised, what it showed, the output file and the file position afterwards,
\* and the table it loaded
Outcome(kind, exc, table, out, disk, pos, loaded) ==
    [kind |-> kind, exc |-> exc, val |-> None, table |-> table, out |-> out,
     disk |-> disk, pos |-> pos, loaded |-> loaded, preview |-> NotLoaded,
     button |-> FALSE]

SupportedAgg == {"sum", "mean", "median"}

\* the else branch returning None without the message
UnsupportedAgg_silent(out, disk, pos, loaded) ==
    Outcome("none", "", EmptyDf, out, disk, pos, loaded)

\* the else branch reached after the output file was opened for writing
UnsupportedAgg_truncate(out, disk, pos, loaded) ==
    Outcome("none", "", EmptyDf,
            out \o <<Msg("error", "Unsupported aggregation function", <<>>)>>,
            [exists |-> TRUE, csv |-> EmptyCsv], pos, loaded)

\* the else branch of the dispatch on agg_func (lines 68-70)
UnsupportedAgg(out, disk, pos, loaded) ==
    Outcome("none", "", EmptyDf,
            out \o <<Msg("error", "Unsupported aggregation function", <<>>)>>,
            disk, pos, loaded)

\* the success path after the reduction (lines 72-84)
Emit(agg, out, pos, loaded) ==
    Outcome("table", "", agg,
            out \o <<Msg("success", "Data processed successfully!", <<>>),
                     Msg("download", "Cleaned_Aggregated_Data.csv", to_csv(agg))>>,
            [exists |-> TRUE, csv |-> to_csv(agg)], pos, loaded)

\* the part of process_file after the missing-columns check (lines 58-84)
Aggregate(data, out, a, disk, pos, loaded) ==
    IF a.agg_func \notin SupportedAgg
    THEN UnsupportedAgg(out, disk, pos, loaded)
    ELSE IF a.group_cols.isNone
    THEN \* ['Formatted Month'] + None
         Outcome("raised", "TypeError", EmptyDf, out, disk, pos, loaded)
    ELSE IF \E j \in 1..Len(a.group_cols.v) : a.group_cols.v[j] \notin Range(data.columns)
    THEN Outcome("raised", "KeyError", EmptyDf, out, disk, pos, loaded)
    ELSE IF (Range(a.group_cols.v) \cup {FM}) \cap Range(a.sum_cols.v) # {}
    THEN \* reset_index cannot insert a key that is already a column
         Outcome("raised", "ValueError", EmptyDf, out, disk, pos, loaded)
    ELSE Emit(GroupAgg(ToNumeric(data, a.sum_cols.v), <<FM>> \o a.group_cols.v,
                       a.sum_cols.v, a.agg_func),
              out, pos, loaded)

\* the checks on sum_cols (lines 51-56 and 85-87); data has the dated rows
Validate(data, out, a, disk, pos, loaded) ==
    LET Absent(c) == c \notin Range(data.columns)
    IN  IF a.sum_cols.isNone \/ a.sum_cols.v = <<>>
        THEN Outcome("none", "", EmptyDf,
                     out \o <<Msg("error", "No columns selected for summing", <<>>)>>,
                     disk, pos, loaded)
        ELSE IF SelectSeq(a.sum_cols.v, Absent) # <<>>
        THEN Outcome("none", "", EmptyDf,
                     out \o <<Msg("error", "Missing columns", SelectSeq(a.sum_cols.v, Absent))>>,
                     disk, pos, loaded)
        ELSE Aggregate(data, out, a, disk, pos, loaded)

\* lines 46-49, given the results fd of format_date on the rows of data
Dated(data, fd, out, a, disk, pos, loaded) ==
    Validate(DropNa(SetColumn(data, FM, [i \in 1..Len(data.rows) |-> fd[i].ret]), FM),
             out \o Concat([i \in 1..Len(data.rows) |-> fd[i].out]),
             a, disk, pos, loaded)

\* lines 45-87 on the table without its empty rows
Normalise(data, out, a, env, disk, pos, loaded) ==
    Dated(data, [i \in 1..Len(data.rows) |-> format_date(data.rows[i][a.date_col], env)],
          out, a, disk, pos, loaded)

\* the part of process_file after the file is loaded (lines 38-87)
Process(data0, a, env, disk, pos) ==
    IF a.date_col \notin Range(data0.columns)
    THEN Outcome("raised", "KeyError", EmptyDf,
                 <<Msg("write", "Available columns in the uploaded file:", data0.columns)>>,
                 disk, pos, Loaded(data0))
    ELSE Normalise(DropAllNa(data0),
                   <<Msg("write", "Available columns in the uploaded file:", data0.columns)>>,
                   a, env, disk, pos, Loaded(data0))

\* process_file once the file is read (lines 38-87)
AfterRead(rd, a, env, disk) ==
    IF rd.exc # ""
    THEN Outcome("raised", rd.exc, EmptyDf, <<>>, disk, rd.pos, NotLoaded)
    ELSE Process(rd.df, a, env, disk, rd.pos)

\* process_file(file, sheet_name, date_col, group_cols, sum_cols, agg_func)
\* with a the arguments after file, and disk the output file before the call
process_file(file, a, env, disk) ==
    IF EndsWith(file.name, DotXlsx) THEN AfterRead(read_excel(file, a.sheet_name), a, env, disk)
    ELSE IF EndsWith(file.name, DotCsv) THEN AfterRead(read_csv(file), a, env, disk)
    ELSE Outcome("none", "", EmptyDf,
                 <<Msg("error", "Unsupported file type. Please provide a .xlsx or .csv file.", <<>>)>>,
                 disk, file.pos, NotLoaded)

(***************************************************************************)
(* The Streamlit script (lines 89-123): one run of the script.             *)
(***************************************************************************)
Args(sheet_name, date_col, group_cols, sum_cols, agg_func) ==
    [sheet_name |-> sheet_name, date_col |-> date_col, group_cols |-> group_cols,
     sum_cols |-> sum_cols, agg_func |-> agg_func]

\* lines 106-110: the preview of the table df
Shown(df) ==
    <<Msg("write", "Preview of the uploaded data:", df),
      Msg("write", "Available columns in the uploaded file:", df.columns)>>

\* lines 119-123: the outcome r of process_file, shown under the preview
Clicked(r, df, sel) ==
    [r EXCEPT !.out = Shown(df) \o r.out \o
                      (IF r.kind = "table"
                       THEN <<Msg("write", "Aggregated Data:", r.table),
                              Msg("line_chart", FM, sel.sum_cols.v)>>
                       ELSE <<>>),
              !.preview = Loaded(df), !.button = TRUE]

\* lines 105-123, given the result rd of the preview's read
Previewed(rd, file, clicked, a, env, disk) ==
    IF rd.exc # ""
    THEN Outcome("raised", rd.exc, EmptyDf, <<>>, disk, rd.pos, NotLoaded)
    ELSE IF ~clicked
    THEN [Outcome("none", "", EmptyDf, Shown(rd.df), disk, rd.pos, NotLoaded)
             EXCEPT !.preview = Loaded(rd.df), !.button = TRUE]
    ELSE Clicked(process_file([file EXCEPT !.pos = rd.pos], a, env, disk), rd.df, a)

\* file is the uploaded file object as the run finds it, clicked says whether
\* "Process File" was pressed, sel holds the widget selections
ScriptRun(file, clicked, sel, env, disk) ==
    IF EndsWith(file.name, DotXlsx)
    THEN Previewed(read_excel(file, SheetNames[1]), file, clicked,
                   [sel EXCEPT !.sheet_name = SheetNames[1]], env, disk)
    ELSE Previewed(read_csv(file), file, clicked, sel, env, disk)

(***************************************************************************)
(* Inputs.                                                                 *)
(***************************************************************************)
May24 == <<"2", "0", "2", "4", " ", "0", "5", " ", "(", "M", "a", "y", " ", "'", "2", "4", ")">>
Iso == <<"2", "0", "2", "4", "-", "0", "5", "-", "0", "3">>
Junk == <<"x", "x">>

YearTexts == {<<"1", "6", "7", "7">>, <<"1", "6", "7", "8">>, <<"2", "0", "2", "4">>,
              <<"2", "2", "6", "2">>, <<"9", "9", "9", "9">>}
MonthTexts == {<<"0", "0">>, <<"0", "1">>, <<"0", "4">>, <<"0", "5">>, <<"0", "9">>,
               <<"1", "0">>, <<"1", "2">>, <<"1", "3">>}
WordTexts == {<<"M", "a", "y">>, <<"x", "_", "1">>}
TailTexts == {<<>>, <<" ", "x">>}

\* "YYYY MM (Word 'YY)" followed by tl
Special(y, m, w, tl) ==
    y \o <<" ">> \o m \o <<" ", "(">> \o w \o <<" ", "'">> \o SubSeq(y, 3, 4) \o <<")">> \o tl

\* strings close to the special pattern that do not match it
NearMisses ==
    {y \o <<"-">> \o m \o <<" ", "(">> \o w \o <<" ", "'", "2", "4", ")">> :
        y \in YearTexts, m \in {<<"0", "5">>, <<"1", "3">>}, w \in WordTexts}
    \cup {y \o <<" ">> \o m \o <<" ", "(", " ", "'", "2", "4", ")">> :
        y \in YearTexts, m \in {<<"0", "5">>}}
    \cup {y \o <<" ">> \o m \o <<" ", "(">> \o w \o <<" ", "'", "2", ")">> :
        y \in YearTexts, m \in {<<"0", "5">>}, w \in WordTexts}

\* the values format_date is called with
DateInputs ==
    {NaN, None, IntV(202405), FloatV(405, 2), StrV(<<>>), StrV(Iso), StrV(Junk)}
    \cup {StrV(Special(y, m, w, tl)) :
            y \in YearTexts, m \in MonthTexts, w \in WordTexts, tl \in TailTexts}
    \cup {StrV(x) : x \in NearMisses}

Header == <<"Month", "Region", "Sales">>

\* the fields of one line of an uploaded file
Lines ==
    {<<m, r, <<"1", "0">>>> : m \in {<<>>, May24, Junk}, r \in {<<>>, <<"A">>, <<"7">>}}
    \cup {<<May24, r, v>> : r \in {<<>>, <<"A">>, <<"7">>},
                            v \in {<<"1", "0">>, <<"2", "0">>, <<"x">>}}

UiLines ==
    {<<May24, <<"A">>, <<"1", "0">>>>, <<Junk, <<"7">>, <<"x">>>>}

RECURSIVE SeqsUpTo(_, _)
\* the sequences over S of length at most k
SeqsUpTo(S, k) ==
    IF k = 0 THEN {<<>>}
    ELSE LET T == SeqsUpTo(S, k - 1)
         IN  T \cup {Append(q, x) : q \in T, x \in S}

Csv(rows) == [header |-> Header, rows |-> rows]

CsvName == <<"d", ".", "c", "s", "v">>
XlsxName == <<"d", ".", "x", "l", "s", "x">>
TxtName == <<"d", ".", "t", "x", "t">>

\* the files process_file is called with directly
FnFiles ==
    {FileObj(CsvName, Csv(rows)) : rows \in SeqsUpTo(Lines, MaxRows)}
    \cup {FileObj(XlsxName, Csv(rows)) : rows \in SeqsUpTo(Lines, MaxUiRows)}
    \cup {FileObj(TxtName, Csv(<<>>))}

\* the files uploaded through the form (the uploader accepts xlsx and csv)
UiFiles ==
    {FileObj(nm, Csv(rows)) : nm \in {CsvName, XlsxName}, rows \in SeqsUpTo(UiLines, MaxUiRows)}

Sales == ListArg(<<"Sales">>)
ByRegion == ListArg(<<"Region">>)

\* the arguments of a direct call, given the sheet to name
CallArgs(sheet) ==
    {Args(sheet, "Month", g, Sales, f) :
        g \in {ListArg(<<>>), ByRegion}, f \in SupportedAgg}
    \cup {Args(sheet, "Month", ByRegion, sc, f) :
            sc \in {NoneArg, ListArg(<<>>), ListArg(<<"Bogus">>),
                    ListArg(<<"Bogus", "Sales", "Nope">>), ListArg(<<FM>>)},
            f \in {"sum", "max"}}
    \cup {Args(sheet, "Month", ByRegion, Sales, "max"),
          Args(sheet, "Month", NoneArg, Sales, "sum"),
          Args(sheet, "Date", ByRegion, Sales, "sum")}

ArgsFor(file) ==
    IF EndsWith(file.name, DotXlsx)
    THEN CallArgs(SheetNames[1]) \cup {Args(NoneSheet, "Month", ByRegion, Sales, "sum")}
    ELSE CallArgs(NoneSheet)

\* the selections the form offers
Selections ==
    {Args(NoneSheet, "Month", ByRegion, sc, f) :
        sc \in {ListArg(<<>>), Sales}, f \in SupportedAgg}

\* the arguments and files of the calls other code makes during a session
DirectArgs ==
    {Args(NoneSheet, "Month", ByRegion, sc, f) :
        sc \in {Sales, ListArg(<<"Bogus">>)}, f \in {"sum", "max"}}

DirectFiles ==
    {FileObj(CsvName, Csv(<<<<May24, <<"A">>, <<"2", "0">>>>>>)), FileObj(TxtName, Csv(<<>>))}

Envs == {[unit |-> u, fuzzy |-> z] : u \in Units, z \in FuzzyOutcomes}

\* the tables hold no string the fuzzy parser is asked about without the
\* model knowing its answer
RunEnvs == {[unit |-> u, fuzzy |-> <<0, 0, 0>>] : u \in Units}

(***************************************************************************)
(* State.                                                                  *)
(***************************************************************************)
VARIABLES
    uploaded_file,  \* the file in the uploader: [present, file]
    disk,           \* Cleaned_Aggregated_Data.csv
    call,           \* the last call or script run and its inputs
    ret,            \* its outcome
    lastOk          \* the table of the most recent successful run

vars == <<uploaded_file, disk, call, ret, lastOk>>

NoFile == FileObj(<<>>, EmptyCsv)
NoUpload == [present |-> FALSE, file |-> NoFile]
NoArgs == Args(NoneSheet, "", NoneArg, NoneArg, "")
NoEnv == [unit |-> "", fuzzy |-> <<0, 0, 0>>]
Call(fn, date_str, file, args, env) ==
    [fn |-> fn, date_str |-> date_str, file |-> file, args |-> args, env |-> env]
Pending == Outcome("pending", "", EmptyDf, <<>>, NoDisk, "start", NotLoaded)
NoTable == [exists |-> FALSE, table |-> EmptyDf]

Record(r) == IF r.kind = "table" THEN [exists |-> TRUE, table |-> r.table] ELSE lastOk

(***************************************************************************)
(* The functions on their own: Init draws the input, one action calls.     *)
(***************************************************************************)
InitFn ==
    /\ uploaded_file = NoUpload
    /\ disk = NoDisk
    /\ lastOk = NoTable
    /\ ret = Pending
    /\ call \in {Call("format_date", v, NoFile, NoArgs, NoEnv) : v \in DateInputs}
                \cup {Call("process_file", None, f, NoArgs, NoEnv) : f \in FnFiles}

\* the outcome of a call of format_date that returned r
Returned(r, dk) ==
    [Outcome("value", "", EmptyDf, r.out, dk, "start", NotLoaded) EXCEPT !.val = r.ret]

CallFormatDate ==
    /\ call.fn = "format_date"
    /\ ret.kind = "pending"
    /\ \E env \in Envs :
          /\ ret' = Returned(format_date(call.date_str, env), disk)
          /\ call' = [call EXCEPT !.env = env]
    /\ UNCHANGED <<uploaded_file, disk, lastOk>>

CallProcessFile ==
    /\ call.fn = "process_file"
    /\ ret.kind = "pending"
    /\ \E a \in ArgsFor(call.file), env \in RunEnvs :
          /\ ret' = process_file(call.file, a, env, disk)
          /\ call' = [call EXCEPT !.args = a, !.env = env]
    /\ disk' = ret'.disk
    /\ lastOk' = Record(ret')
    /\ UNCHANGED uploaded_file

NextFn == CallFormatDate \/ CallProcessFile

SpecFn == InitFn /\ [][NextFn]_vars

(***************************************************************************)
(* The session: uploads, reruns, clicks on "Process File", and calls of    *)
(* process_file by other code, all sharing the output file.                *)
(***************************************************************************)
Init ==
    /\ uploaded_file = NoUpload
    /\ disk = NoDisk
    /\ lastOk = NoTable
    /\ ret = Pending
    /\ call = Call("none", None, NoFile, NoArgs, NoEnv)

\* the user picks a file: the script runs on the new file object
Upload ==
    \E f \in UiFiles, env \in RunEnvs :
        /\ ret' = ScriptRun(f, FALSE, NoArgs, env, disk)
        /\ uploaded_file' = [present |-> TRUE, file |-> [f EXCEPT !.pos = ret'.pos]]
        /\ call' = Call("upload", None, f, NoArgs, env)
        /\ UNCHANGED <<disk, lastOk>>

\* the user clears the uploader: the script runs and shows the empty form
Remove ==
    /\ uploaded_file.present
    /\ uploaded_file' = NoUpload
    /\ ret' = Outcome("none", "", EmptyDf, <<>>, disk, "start", NotLoaded)
    /\ call' = Call("remove", None, NoFile, NoArgs, NoEnv)
    /\ UNCHANGED <<disk, lastOk>>

\* the file object a rerun finds: a rewound one, or the one the previous
\* run left at its read position, depending on the Streamlit build
Found(rewound) ==
    IF rewound THEN [uploaded_file.file EXCEPT !.pos = "start"] ELSE uploaded_file.file

\* the user changes a selection: the script reruns without the click
Rerun ==
    /\ uploaded_file.present
    /\ ret.button
    /\ \E rewound \in BOOLEAN, env \in RunEnvs :
          /\ ret' = ScriptRun(Found(rewound), FALSE, NoArgs, env, disk)
          /\ call' = Call("rerun", None, Found(rewound), NoArgs, env)
    /\ uploaded_file' = [uploaded_file EXCEPT !.file.pos = ret'.pos]
    /\ UNCHANGED <<disk, lastOk>>

\* the user presses "Process File": the script reruns and calls process_file
ClickProcess ==
    /\ uploaded_file.present
    /\ ret.button
    /\ \E rewound \in BOOLEAN, sel \in Selections, env \in RunEnvs :
          /\ ret' = ScriptRun(Found(rewound), TRUE, sel, env, disk)
          /\ call' = Call("click", None, Found(rewound), sel, env)
    /\ uploaded_file' = [uploaded_file EXCEPT !.file.pos = ret'.pos]
    /\ disk' = ret'.disk
    /\ lastOk' = Record(ret')

\* other code calls process_file on a file it opened
DirectCall ==
    \E f \in DirectFiles, env \in RunEnvs :
        \E a \in DirectArgs :
            /\ ret' = process_file(f, a, env, disk)
            /\ call' = Call("process_file", None, f, a, env)
            /\ disk' = ret'.disk
            /\ lastOk' = Record(ret')
            /\ UNCHANGED uploaded_file

Next == Upload \/ Remove \/ Rerun \/ ClickProcess \/ DirectCall

Spec == Init /\ [][Next]_vars

(***************************************************************************)
(* Notions the properties share.                                           *)
(***************************************************************************)
Called(fn) == call.fn = fn /\ ret.kind # "pending"

\* process_file ran and loaded a table
Processed == call.fn \in {"process_file", "click"} /\ ret.kind # "pending" /\ ret.loaded.ok

\* process_file returned the aggregated table
Succeeded == Processed /\ ret.kind = "table"

LoadedRows == ret.loaded.df.rows
LoadedCols == Range(ret.loaded.df.columns)

\* the normalised date of a loaded row
DateOf(r) == format_date(r[call.args.date_col], call.env).ret

HasDate(r) == ~isna(DateOf(r))

\* the rows that remain after date-normalisation filtering
Retained == SelectSeq(LoadedRows, HasDate)

Keys == <<FM>> \o call.args.group_cols.v

\* the aggregation key a row carries, and the key of an output row
RowKey(r) ==
    <<DateOf(r)>> \o [j \in 1..Len(call.args.group_cols.v) |-> r[call.args.group_cols.v[j]]]
OutKey(o) == [j \in 1..Len(Keys) |-> o[Keys[j]]]

OutRows == ret.table.rows

\* the requested numeric columns that the loaded table does not have
NotLoadedCol(c) == c \notin LoadedCols
AbsentCols == SelectSeq(call.args.sum_cols.v, NotLoadedCol)

Shows(kind, text) ==
    \E i \in 1..Len(ret.out) : ret.out[i].kind = kind /\ ret.out[i].text = text

\* nothing was written, offered for download or announced as a success
NoOutput ==
    /\ disk = NoDisk
    /\ \A i \in 1..Len(ret.out) : ret.out[i].kind \notin {"download", "success"}

IsDownload(m) == m.kind = "download"
Downloads == SelectSeq(ret.out, IsDownload)

Precs == {"nearest", "off"}

NumEq(v, n, d) == IsNumber(v) /\ v.n * d = n * v.d
NumLt(a, b) == a.n * b.d < b.n * a.d
Count(q, P(_)) == Cardinality({i \in 1..Len(q) : P(q[i])})

(***************************************************************************)
(* C1                                                                      *)
(***************************************************************************)
SpecialInput == Called("format_date") /\ call.date_str.t = "str" /\ RegexMatch(call.date_str.s)

\* '01-MM-YYYY' from the digits of the input
FirstOfMonth(s) == <<"0", "1", "-">> \o SubSeq(s, 6, 7) \o <<"-">> \o SubSeq(s, 1, 4)

\* MM is a month and the first of that month is a timestamp in every build
InCalendar(s) ==
    LET y == ParseInt(SubSeq(s, 1, 4))
        m == ParseInt(SubSeq(s, 6, 7))
    IN  /\ m \in 1..12
        /\ y > 1677 \/ (y = 1677 /\ m >= 10)
        /\ y < 2262 \/ (y = 2262 /\ m <= 4)

\* C1 as stated: for every string that matches the special pattern,
\* format_date returns '01-MM-YYYY' built from the MM and YYYY digits of the
\* input, whatever those digits are.
C1_AnyDigits == SpecialInput => ret.val = StrV(FirstOfMonth(call.date_str.s))

\* C1 amended: for every string that matches the special pattern, whose MM is
\* 01..12 and whose first of the month lies within 1677-10 .. 2262-04,
\* format_date returns '01-MM-YYYY' built from the MM and YYYY digits of the
\* input.
C1_CalendarMonths ==
    (SpecialInput /\ InCalendar(call.date_str.s))
        => ret.val = StrV(FirstOfMonth(call.date_str.s))

C1_Witness ==
    /\ SpecialInput
    /\ InCalendar(call.date_str.s)
    /\ Len(call.date_str.s) > 17
    /\ ret.val.t = "str"

(***************************************************************************)
(* C2                                                                      *)
(***************************************************************************)
NullDate(r) == isna(r[call.args.date_col])
NotNullDate(r) == ~NullDate(r)

\* C2: for a null date format_date returns None, and on a successful run the
\* rows with a null date take no part in the aggregation: the output is the
\* output of the same run on the table without those rows.
C2_NullDatesExcluded ==
    /\ (Called("format_date") /\ isna(call.date_str))
          => (ret.val = None /\ ret.out = <<>>)
    /\ Succeeded =>
          /\ \A i \in 1..Len(LoadedRows) : NullDate(LoadedRows[i]) =>
                \A env \in Envs :
                    format_date(LoadedRows[i][call.args.date_col], env).ret = None
          /\ Process([ret.loaded.df EXCEPT !.rows = SelectSeq(LoadedRows, NotNullDate)],
                     call.args, call.env, NoDisk, "end").table = ret.table

C2_Witness ==
    /\ Succeeded
    /\ OutRows # <<>>
    /\ \E i \in 1..Len(LoadedRows) :
          /\ NullDate(LoadedRows[i])
          /\ \E c \in LoadedCols : ~isna(LoadedRows[i][c])

(***************************************************************************)
(* C3                                                                      *)
(***************************************************************************)
\* C3: on a successful run no two output rows share a key, every output row
\* has the key of a retained row, and every key carried by a retained row,
\* also one with a missing group value, is the key of an output row.
C3_OneRowPerKey ==
    Succeeded =>
        /\ \A i, j \in 1..Len(OutRows) : OutKey(OutRows[i]) = OutKey(OutRows[j]) => i = j
        /\ \A i \in 1..Len(OutRows) :
              \E k \in 1..Len(Retained) : RowKey(Retained[k]) = OutKey(OutRows[i])
        /\ \A k \in 1..Len(Retained) :
              \E i \in 1..Len(OutRows) : OutKey(OutRows[i]) = RowKey(Retained[k])

(***************************************************************************)
(* C4                                                                      *)
(***************************************************************************)
\* the arguments meet the contract of the aggregator for the loaded table
ArgsInContract ==
    LET a == call.args
    IN  /\ a.date_col \in LoadedCols
        /\ ~a.sum_cols.isNone /\ a.sum_cols.v # <<>> /\ Range(a.sum_cols.v) \subseteq LoadedCols
        /\ ~a.group_cols.isNone /\ Range(a.group_cols.v) \subseteq LoadedCols
        /\ Range(a.group_cols.v) \cap Range(a.sum_cols.v) = {}
        /\ a.agg_func \in SupportedAgg

\* the numbers that the values of column c coerce to, over the retained rows
\* with key k
NumbersOf(k, c) ==
    LET InK(r) == RowKey(r) = k
        m == SelectSeq(Retained, InK)
    IN  SelectSeq([i \in 1..Len(m) |-> Coerce(m[i][c])], NotNa)

\* v is the median of the numbers q
IsMedian(v, q) ==
    LET k == Len(q)
        Below(x) == LET P(y) == NumLt(y, x) IN Count(q, P)
        Above(x) == LET P(y) == NumLt(x, y) IN Count(q, P)
    IN  IF k % 2 = 1
        THEN \E i \in 1..k : /\ NumEq(v, q[i].n, q[i].d)
                             /\ 2 * Below(q[i]) < k /\ 2 * Above(q[i]) < k
        ELSE \E i, j \in 1..k :
                /\ i # j
                /\ ~NumLt(q[j], q[i])
                /\ NumEq(v, q[i].n * q[j].d + q[j].n * q[i].d, 2 * q[i].d * q[j].d)
                /\ 2 * Below(q[i]) < k /\ 2 * (k - Above(q[i])) >= k
                /\ 2 * Above(q[j]) < k /\ 2 * (k - Below(q[j])) >= k

\* v is the reduction of the numbers q
IsReduction(agg_func, v, q) ==
    LET t == SumNums(q)
    IN  CASE agg_func = "sum" -> NumEq(v, t[1], t[2])
          [] agg_func = "mean" ->
                IF q = <<>> THEN isna(v) ELSE NumEq(v, t[1], t[2] * Len(q))
          [] agg_func = "median" ->
                IF q = <<>> THEN isna(v) ELSE IsMedian(v, q)

\* C4: a run whose arguments meet the contract succeeds whatever the values
\* of the numeric columns are, and each value of an output row is the
\* selected reduction of exactly the numbers that the values of the retained
\* rows with that key coerce to.
C4_Reduction ==
    /\ (Processed /\ ArgsInContract) => ret.kind = "table"
    /\ Succeeded =>
          \A i \in 1..Len(OutRows) : \A c \in Range(call.args.sum_cols.v) :
              IsReduction(call.args.agg_func, OutRows[i][c],
                          NumbersOf(OutKey(OutRows[i]), c))

C4_Witness ==
    /\ Succeeded
    /\ call.args.agg_func = "mean"
    /\ \E i \in 1..Len(OutRows) : \E k, l \in 1..Len(Retained) :
          /\ RowKey(Retained[k]) = OutKey(OutRows[i])
          /\ RowKey(Retained[l]) = OutKey(OutRows[i])
          /\ isna(Coerce(Retained[k]["Sales"]))
          /\ ~isna(Coerce(Retained[l]["Sales"]))

(***************************************************************************)
(* C5                                                                      *)
(***************************************************************************)
\* C5: when a requested numeric column is not a column of the loaded table,
\* process_file reports "Missing columns" naming exactly the absent
\* requested columns, returns None, and writes, offers and announces nothing.
C5_MissingColumns ==
    (/\ Processed
     /\ call.args.date_col \in LoadedCols
     /\ ~call.args.sum_cols.isNone
     /\ AbsentCols # <<>>)
        => /\ ret.kind = "none"
           /\ \E i \in 1..Len(ret.out) :
                 /\ ret.out[i].kind = "error"
                 /\ ret.out[i].text = "Missing columns"
                 /\ ret.out[i].arg = AbsentCols
           /\ NoOutput

(***************************************************************************)
(* C6                                                                      *)
(***************************************************************************)
UnsupportedRequest ==
    /\ Processed
    /\ call.args.date_col \in LoadedCols
    /\ ~call.args.sum_cols.isNone /\ call.args.sum_cols.v # <<>>
    /\ AbsentCols = <<>>
    /\ call.args.agg_func \notin SupportedAgg

\* C6: when the reduction name is none of sum, mean, median and the (non-empty
\* list of) requested numeric columns all exist in the loaded table,
\* process_file reports "Unsupported aggregation function", returns None, and
\* writes, offers and announces nothing.
C6_UnsupportedAgg ==
    UnsupportedRequest
        => /\ ret.kind = "none"
           /\ Shows("error", "Unsupported aggregation function")
           /\ NoOutput

C6_Witness == UnsupportedRequest /\ call.args.agg_func = "max" /\ LoadedRows # <<>>

(***************************************************************************)
(* C7                                                                      *)
(***************************************************************************)
\* C7: format_date raises for no value; when it fails on a value that is not
\* null it reports that value and returns None; and a successful run of
\* process_file reports each row whose date failed and has every other row
\* in the output, under the key that row carries.
C7_ParseFailureNotFatal ==
    /\ Called("format_date") =>
          /\ ret.kind = "value"
          /\ (ret.val = None /\ ~isna(call.date_str))
                => ret.out = <<ParseError(call.date_str)>>
    /\ Succeeded =>
          \A k \in 1..Len(LoadedRows) :
              LET r == LoadedRows[k]
              IN  IF HasDate(r)
                  THEN \E i \in 1..Len(OutRows) : OutKey(OutRows[i]) = RowKey(r)
                  ELSE NullDate(r) \/
                       \E i \in 1..Len(ret.out) :
                           /\ ret.out[i].text = "Error parsing date"
                           /\ ret.out[i].arg = r[call.args.date_col]

(***************************************************************************)
(* C8                                                                      *)
(***************************************************************************)
\* the column of the aggregated table holds only text spelled like numbers
NumericText(c) ==
    \A i \in 1..Len(OutRows) :
        OutRows[i][c].t = "str" /\ (IsIntText(OutRows[i][c].s) \/ IsFloatText(OutRows[i][c].s))

\* the cell v of column c reads back as w
ReadsBackAs(c, v, w) ==
    \/ w = v
    \/ NumericText(c) /\ w = Coerce(v)
    \/ v.t = "float" /\ ~Terminates(v.d) /\ w.t = "float" /\ w.n = v.n /\ w.d = v.d

C9_FileIsLastSuccess ==
    /\ disk = IF lastOk.exists THEN [exists |-> TRUE, csv |-> to_csv(lastOk.table)]
              ELSE NoDisk
    /\ Succeeded => lastOk = [exists |-> TRUE, table |-> ret.table]

C9_Witness ==
    /\ call.fn \in {"process_file", "click"}
    /\ ret.kind = "none"
    /\ Shows("error", "Unsupported aggregation function")
    /\ disk.exists
    /\ disk.csv.rows # <<>>

(***************************************************************************)
(* C10                                                                     *)
(***************************************************************************)
\* C10: when "Process File" is clicked and the preview has read the uploaded
\* file, process_file reads the same file object completely: it loads a
\* table with the rows and columns of the previewed one.
C10_SecondReadComplete ==
    (call.fn = "click" /\ ret.kind # "pending" /\ ret.preview.ok)
        => (ret.loaded.ok /\ ret.loaded.df = ret.preview.df)

==========================================================================
